---- MODULE Spec2Model ----
(***************************************************************************)
(* Model of the script timing engine of OutputDisplay (generateSRT,        *)
(* recalculateTimestamps) and of the component state around it.            *)
(*                                                                         *)
(* A JavaScript string is a sequence of one-character strings.  A          *)
(* JavaScript number is an IEEE-754 binary64 value; the non-negative       *)
(* finite ones the engine computes are modelled bit-exactly (53-bit        *)
(* significand, round to nearest, ties to even).                           *)
(***************************************************************************)
EXTENDS Integers, Sequences, FiniteSets, TLC

(***************************************************************************)
(* Characters and strings                                                  *)
(***************************************************************************)
DigitChars == <<"0", "1", "2", "3", "4", "5", "6", "7", "8", "9">>

IsDigit(c) == \E d \in 1..10 : DigitChars[d] = c

DigitVal(c) == (CHOOSE d \in 1..10 : DigitChars[d] = c) - 1

\* the characters matched by \s and removed by String.prototype.trim
IsSpace(c) == c \in {" ", "\n", "\t", "\r"}

Rep(c, n) == <<>> \o [i \in 1..n |-> c]

MinOf(S) == CHOOSE x \in S : \A y \in S : x <= y

RECURSIVE SplitFrom(_, _)
SplitFrom(s, from) ==
    LET nl == {i \in from..Len(s) : s[i] = "\n"}
    IN  IF nl = {} THEN <<SubSeq(s, from, Len(s))>>
        ELSE <<SubSeq(s, from, MinOf(nl) - 1)>> \o SplitFrom(s, MinOf(nl) + 1)

\* script.split('\n')
Split(s) == SplitFrom(s, 1)

RECURSIVE Join(_, _)
\* Array.prototype.join(sep)
Join(parts, sep) ==
    IF Len(parts) = 0 THEN <<>>
    ELSE IF Len(parts) = 1 THEN parts[1]
    ELSE parts[1] \o sep \o Join(Tail(parts), sep)

RECURSIVE FirstNonSpace(_, _)
FirstNonSpace(s, i) ==
    IF i > Len(s) THEN i
    ELSE IF IsSpace(s[i]) THEN FirstNonSpace(s, i + 1) ELSE i

RECURSIVE LastNonSpace(_, _)
LastNonSpace(s, i) ==
    IF i < 1 THEN i
    ELSE IF IsSpace(s[i]) THEN LastNonSpace(s, i - 1) ELSE i

\* String.prototype.trim
Trim(s) == SubSeq(s, FirstNonSpace(s, 1), LastNonSpace(s, Len(s)))

RECURSIVE IntToStr(_)
\* Number.prototype.toString of a non-negative integer
IntToStr(n) ==
    IF n < 10 THEN <<DigitChars[n + 1]>>
    ELSE IntToStr(n \div 10) \o <<DigitChars[(n % 10) + 1]>>

\* String.prototype.padStart(width, '0'): pads, never truncates
PadStart(s, width) ==
    IF Len(s) >= width THEN s ELSE Rep("0", width - Len(s)) \o s

(***************************************************************************)
(* The marker pattern  /\(?(\d{2}):(\d{2})\)?/                             *)
(***************************************************************************)
CoreAt(s, j) ==
    /\ j >= 1
    /\ j + 4 <= Len(s)
    /\ IsDigit(s[j])
    /\ IsDigit(s[j + 1])
    /\ s[j + 2] = ":"
    /\ IsDigit(s[j + 3])
    /\ IsDigit(s[j + 4])

CloseLen(s, j) == IF j <= Len(s) /\ s[j] = ")" THEN 1 ELSE 0

\* length of the match of the pattern anchored at position i, 0 when none
MatchLenAt(s, i) ==
    IF s[i] = "(" /\ CoreAt(s, i + 1) THEN 6 + CloseLen(s, i + 6)
    ELSE IF CoreAt(s, i) THEN 5 + CloseLen(s, i + 5)
    ELSE 0

\* position of the first (leftmost) match in s, 0 when the line has none
timeRegexIndex(s) ==
    LET hits == {i \in 1..Len(s) : MatchLenAt(s, i) > 0}
    IN  IF hits = {} THEN 0 ELSE MinOf(hits)

\* timeRegex.test(line) / line.match(timeRegex) !== null
timeRegexTest(s) == timeRegexIndex(s) > 0

\* line.match(timeRegex): index and length of the match, the two groups
timeRegexMatch(s) ==
    LET i == timeRegexIndex(s)
        n == MatchLenAt(s, i)
        c == IF s[i] = "(" THEN i + 1 ELSE i
    IN  [index |-> i, length |-> n,
         g1 |-> SubSeq(s, c, c + 1), g2 |-> SubSeq(s, c + 3, c + 4)]

RECURSIVE timeRegexReplaceAll(_, _)
\* timeRegexReplace with every match replaced, as under a global flag
timeRegexReplaceAll(s, repl) ==
    LET i == timeRegexIndex(s)
    IN  IF i = 0 THEN s
        ELSE SubSeq(s, 1, i - 1) \o repl
                \o timeRegexReplaceAll(SubSeq(s, i + MatchLenAt(s, i), Len(s)), repl)

\* line.replace(timeRegex, repl): the first match only, s itself when none
timeRegexReplace(s, repl) ==
    LET i == timeRegexIndex(s)
    IN  IF i = 0 THEN s
        ELSE SubSeq(s, 1, i - 1) \o repl \o SubSeq(s, i + MatchLenAt(s, i), Len(s))

\* parseInt(g, 10) of a two-digit group
parseInt(g) == DigitVal(g[1]) * 10 + DigitVal(g[2])

RECURSIVE StripBoldFrom(_, _)
\* the matches are found left to right and do not overlap
StripBoldFrom(s, i) ==
    LET hits == {j \in i..(Len(s) - 1) : s[j] = "*" /\ s[j + 1] = "*"}
    IN  IF hits = {} THEN SubSeq(s, i, Len(s))
        ELSE SubSeq(s, i, MinOf(hits) - 1) \o StripBoldFrom(s, MinOf(hits) + 2)

\* s.replace(/\*\*/g, '')
StripBold(s) == StripBoldFrom(s, 1)

\* position of the first ']' after position j that '.*?' (lazy, and '.'
\* matches no line terminator) reaches, 0 when none
CloseBracket(s, j) ==
    LET close == {c \in (j + 1)..Len(s) :
                    /\ s[c] = "]"
                    /\ \A k \in (j + 1)..(c - 1) : s[k] \notin {"\n", "\r"}}
    IN  IF close = {} THEN 0 ELSE MinOf(close)

RECURSIVE StripBracketsFrom(_, _)
StripBracketsFrom(s, i) ==
    LET hits == {j \in i..Len(s) : s[j] = "[" /\ CloseBracket(s, j) > 0}
    IN  IF hits = {} THEN SubSeq(s, i, Len(s))
        ELSE SubSeq(s, i, MinOf(hits) - 1)
                \o StripBracketsFrom(s, CloseBracket(s, MinOf(hits)) + 1)

\* s.replace(/\[.*?\]/g, '')
StripBrackets(s) == StripBracketsFrom(s, 1)

\* length of the match of /#{1,6}\s/ anchored at position i, 0 when none
HeadingLenAt(s, i) ==
    LET runs == {r \in 1..6 : /\ i + r <= Len(s)
                              /\ \A k \in i..(i + r - 1) : s[k] = "#"
                              /\ IsSpace(s[i + r])}
    IN  IF runs = {} THEN 0 ELSE MinOf(runs) + 1

RECURSIVE StripHeadingsFrom(_, _)
StripHeadingsFrom(s, i) ==
    LET hits == {j \in i..Len(s) : HeadingLenAt(s, j) > 0}
    IN  IF hits = {} THEN SubSeq(s, i, Len(s))
        ELSE SubSeq(s, i, MinOf(hits) - 1)
                \o StripHeadingsFrom(s, MinOf(hits) + HeadingLenAt(s, MinOf(hits)))

\* s.replace(/#{1,6}\s/g, '')
StripHeadings(s) == StripHeadingsFrom(s, 1)

(***************************************************************************)
(* JavaScript numbers: non-negative finite IEEE-754 binary64 values.       *)
(* A value is [m, e]: m the 53 significand bits, most significant first    *)
(* and leading bit 1, the value being m * 2^e; zero has m = <<>>.          *)
(***************************************************************************)
SignificandBits == 53

DZero == [m |-> <<>>, e |-> 0]

RECURSIVE IntToBits(_)
IntToBits(n) == IF n = 0 THEN <<>> ELSE IntToBits(n \div 2) \o <<n % 2>>

RECURSIVE BitsToInt(_, _, _)
\* the integer written by the bits lo..hi of b
BitsToInt(b, lo, hi) ==
    IF lo > hi THEN 0
    ELSE IF lo = hi THEN b[lo]
    ELSE LET mid == (lo + hi) \div 2
         IN  BitsToInt(b, lo, mid) * (2 ^ (hi - mid)) + BitsToInt(b, mid + 1, hi)

RECURSIVE StripZerosFrom(_, _)
StripZerosFrom(b, i) ==
    IF i > Len(b) THEN <<>>
    ELSE IF b[i] = 0 THEN StripZerosFrom(b, i + 1) ELSE SubSeq(b, i, Len(b))

\* carry into position i when adding the equally long bit strings a and b
CarryInto(a, b, i) ==
    \E j \in (i + 1)..Len(a) :
        /\ a[j] = 1
        /\ b[j] = 1
        /\ \A k \in (i + 1)..(j - 1) : a[k] # b[k]

\* exact sum of two bit strings, aligned at the least significant bit
AddBits(a, b) ==
    LET n  == IF Len(a) >= Len(b) THEN Len(a) ELSE Len(b)
        pa == Rep(0, n - Len(a)) \o a
        pb == Rep(0, n - Len(b)) \o b
        lo == [i \in 1..n |-> (pa[i] + pb[i] + (IF CarryInto(pa, pb, i) THEN 1 ELSE 0)) % 2]
    IN  (IF CarryInto(pa, pb, 0) THEN <<1>> ELSE <<>>) \o lo

RECURSIVE MulBits(_, _)
\* exact product of a bit string and a non-negative integer
MulBits(b, k) ==
    IF k = 0 THEN <<>>
    ELSE AddBits(IF k % 2 = 1 THEN b ELSE <<>>, Append(MulBits(b, k \div 2), 0))

RECURSIVE LongDiv(_, _, _, _, _)
\* binary long division of the bits lo..hi of n by k, entered with the
\* remainder r: the quotient bits and the remainder left
LongDiv(n, k, lo, hi, r) ==
    IF lo > hi THEN [q |-> <<>>, r |-> r]
    ELSE IF lo = hi
    THEN [q |-> <<(2 * r + n[lo]) \div k>>, r |-> (2 * r + n[lo]) % k]
    ELSE LET mid   == (lo + hi) \div 2
             left  == LongDiv(n, k, lo, mid, r)
             right == LongDiv(n, k, mid + 1, hi, left.r)
         IN  [q |-> left.q \o right.q, r |-> right.r]

\* the binary64 nearest to b * 2^e (+ a non-zero tail below the last bit
\* when sticky), ties to even
RoundBits(b, e, sticky) ==
    LET s == StripZerosFrom(b, 1)
        n == Len(s)
    IN  IF n = 0 THEN DZero
        ELSE IF n <= SignificandBits
        THEN [m |-> s \o Rep(0, SignificandBits - n), e |-> e - (SignificandBits - n)]
        ELSE LET keep == SubSeq(s, 1, SignificandBits)
                 st   == sticky \/ \E i \in (SignificandBits + 2)..n : s[i] = 1
                 up   == s[SignificandBits + 1] = 1 /\ (st \/ keep[SignificandBits] = 1)
                 e2   == e + n - SignificandBits
                 inc  == AddBits(keep, <<1>>)
             IN  IF ~up THEN [m |-> keep, e |-> e2]
                 ELSE IF Len(inc) > SignificandBits
                 THEN [m |-> SubSeq(inc, 1, SignificandBits), e |-> e2 + 1]
                 ELSE [m |-> inc, e |-> e2]

\* an integer as a number
DFromInt(n) == RoundBits(IntToBits(n), 0, FALSE)

\* x + y
DAdd(x, y) ==
    IF Len(x.m) = 0 THEN y
    ELSE IF Len(y.m) = 0 THEN x
    ELSE LET hi == IF x.e >= y.e THEN x ELSE y
             lo == IF x.e >= y.e THEN y ELSE x
         IN  RoundBits(AddBits(hi.m \o Rep(0, hi.e - lo.e), lo.m), lo.e, FALSE)

\* x / k for an integer 1 <= k < 2^12
DDivInt(x, k) ==
    IF Len(x.m) = 0 THEN DZero
    ELSE LET n == x.m \o Rep(0, 16)
             d == LongDiv(n, k, 1, Len(n), 0)
         IN  RoundBits(d.q, x.e - 16, d.r # 0)

\* x * k for a non-negative integer k
DMulInt(x, k) == RoundBits(MulBits(x.m, k), x.e, FALSE)

\* Math.floor(x), for x < 2^31
DFloor(x) ==
    IF Len(x.m) = 0 \/ SignificandBits + x.e <= 0 THEN 0
    ELSE IF x.e >= 0 THEN BitsToInt(x.m, 1, SignificandBits) * (2 ^ x.e)
    ELSE BitsToInt(x.m, 1, SignificandBits + x.e)

\* x % 1 (exact)
DFrac(x) ==
    IF Len(x.m) = 0 \/ x.e >= 0 THEN DZero
    ELSE IF SignificandBits + x.e <= 0 THEN x
    ELSE RoundBits(SubSeq(x.m, SignificandBits + x.e + 1, SignificandBits), x.e, FALSE)

\* x % k for an integer k >= 1 (exact)
DModInt(x, k) == DAdd(DFromInt(DFloor(x) % k), DFrac(x))

\* x < y
DLess(x, y) ==
    IF Len(y.m) = 0 THEN FALSE
    ELSE IF Len(x.m) = 0 THEN TRUE
    ELSE IF x.e # y.e THEN x.e < y.e
    ELSE \E i \in 1..SignificandBits :
            /\ x.m[i] < y.m[i]
            /\ \A j \in 1..(i - 1) : x.m[j] = y.m[j]

\* Math.max(x, y)
DMax(x, y) == IF DLess(x, y) THEN y ELSE x

(***************************************************************************)
(* generateSRT                                                             *)
(***************************************************************************)
\* the caption text left of a marker line
cleanText(line) ==
    Trim(StripBrackets(StripBold(Trim(timeRegexReplace(line, <<>>)))))

\* the caption text left of a line that follows a marker line
cleanLine(line) == Trim(StripBold(StripHeadings(line)))

\* totalSeconds with the seconds field held to 0..59
totalSecondsClamped(line) ==
    LET match == timeRegexMatch(line)
    IN  parseInt(match.g1) * 60
            + (IF parseInt(match.g2) > 59 THEN 59 ELSE parseInt(match.g2))

\* mins * 60 + secs of the first marker of a marker line
totalSeconds(line) ==
    LET match == timeRegexMatch(line)
    IN  parseInt(match.g1) * 60 + parseInt(match.g2)

\* srtEntries.push({start, text: currentEntry.text.join('\n').trim()})
closeEntry(currentEntry) ==
    [start |-> currentEntry.start, text |-> Trim(Join(currentEntry.text, <<"\n">>))]

\* scanLine with a marker line that carries no caption text skipped
scanLineSkipsBare(st, line) ==
    IF timeRegexTest(line) /\ cleanText(line) # <<>>
    THEN [entries |-> IF st.currentEntry # <<>>
                      THEN Append(st.entries, closeEntry(st.currentEntry[1]))
                      ELSE st.entries,
          currentEntry |-> <<[start |-> totalSeconds(line), text |-> <<cleanText(line)>>]>>]
    ELSE IF ~timeRegexTest(line) /\ st.currentEntry # <<>> /\ cleanLine(line) # <<>>
    THEN [entries |-> st.entries,
          currentEntry |-> <<[start |-> st.currentEntry[1].start,
                              text  |-> Append(st.currentEntry[1].text, cleanLine(line))]>>]
    ELSE st

\* scanLine with text ahead of the first marker opening an entry at 0
scanLineOpensAtZero(st, line) ==
    IF timeRegexTest(line)
    THEN [entries |-> IF st.currentEntry # <<>>
                      THEN Append(st.entries, closeEntry(st.currentEntry[1]))
                      ELSE st.entries,
          currentEntry |-> <<[start |-> totalSeconds(line),
                              text  |-> IF cleanText(line) # <<>>
                                        THEN <<cleanText(line)>> ELSE <<>>]>>]
    ELSE IF cleanLine(line) # <<>>
    THEN [entries |-> st.entries,
          currentEntry |-> <<[start |-> IF st.currentEntry # <<>>
                                        THEN st.currentEntry[1].start ELSE 0,
                              text  |-> IF st.currentEntry # <<>>
                                        THEN Append(st.currentEntry[1].text, cleanLine(line))
                                        ELSE <<cleanLine(line)>>]>>]
    ELSE st

\* scanLine with a following line put ahead of the text gathered so far
scanLineNewestFirst(st, line) ==
    IF timeRegexTest(line)
    THEN [entries |-> IF st.currentEntry # <<>>
                      THEN Append(st.entries, closeEntry(st.currentEntry[1]))
                      ELSE st.entries,
          currentEntry |-> <<[start |-> totalSeconds(line),
                              text  |-> IF cleanText(line) # <<>>
                                        THEN <<cleanText(line)>> ELSE <<>>]>>]
    ELSE IF st.currentEntry # <<>> /\ cleanLine(line) # <<>>
    THEN [entries |-> st.entries,
          currentEntry |-> <<[start |-> st.currentEntry[1].start,
                              text  |-> <<cleanLine(line)>> \o st.currentEntry[1].text]>>]
    ELSE st

\* scanLine with a following line pushed also when nothing is left of it
scanLinePushesBlank(st, line) ==
    IF timeRegexTest(line)
    THEN [entries |-> IF st.currentEntry # <<>>
                      THEN Append(st.entries, closeEntry(st.currentEntry[1]))
                      ELSE st.entries,
          currentEntry |-> <<[start |-> totalSeconds(line),
                              text  |-> IF cleanText(line) # <<>>
                                        THEN <<cleanText(line)>> ELSE <<>>]>>]
    ELSE IF st.currentEntry # <<>>
    THEN [entries |-> st.entries,
          currentEntry |-> <<[start |-> st.currentEntry[1].start,
                              text  |-> Append(st.currentEntry[1].text, cleanLine(line))]>>]
    ELSE st

\* one call of the forEach callback; currentEntry is <<>> for null, else
\* a one-element sequence holding the open entry
scanLine(st, line) ==
    IF timeRegexTest(line)
    THEN [entries |-> IF st.currentEntry # <<>>
                      THEN Append(st.entries, closeEntry(st.currentEntry[1]))
                      ELSE st.entries,
          currentEntry |-> <<[start |-> totalSeconds(line),
                              text  |-> IF cleanText(line) # <<>>
                                        THEN <<cleanText(line)>> ELSE <<>>]>>]
    ELSE IF st.currentEntry # <<>> /\ cleanLine(line) # <<>>
    THEN [entries |-> st.entries,
          currentEntry |-> <<[start |-> st.currentEntry[1].start,
                              text  |-> Append(st.currentEntry[1].text, cleanLine(line))]>>]
    ELSE st

RECURSIVE scanLines(_, _, _)
scanLines(lines, i, st) ==
    IF i > Len(lines) THEN st ELSE scanLines(lines, i + 1, scanLine(st, lines[i]))

\* the array srtEntries once the last open entry is pushed
srtEntries(script) ==
    LET st == scanLines(Split(script), 1, [entries |-> <<>>, currentEntry |-> <<>>])
    IN  IF st.currentEntry # <<>>
        THEN Append(st.entries, closeEntry(st.currentEntry[1]))
        ELSE st.entries

\* endTime with the next entry ignored: every cue gets the estimate
endTimeEstimated(entries, index) ==
    DAdd(DFromInt(entries[index].start),
         DMax(DFromInt(3), DDivInt(DFromInt(Len(entries[index].text)), 10)))

\* endTime with the estimate taken without the minimum of 3 seconds
endTimeNoMinimum(entries, index) ==
    IF index + 1 <= Len(entries) THEN DFromInt(entries[index + 1].start)
    ELSE DAdd(DFromInt(entries[index].start),
              DDivInt(DFromInt(Len(entries[index].text)), 10))

\* nextEntry ? nextEntry.start : entry.start + Math.max(3, entry.text.length / 10)
endTime(entries, index) ==
    IF index + 1 <= Len(entries) THEN DFromInt(entries[index + 1].start)
    ELSE DAdd(DFromInt(entries[index].start),
              DMax(DFromInt(3), DDivInt(DFromInt(Len(entries[index].text)), 10)))

formatSRTTime(s) ==
    LET hrs  == DFloor(DDivInt(s, 3600))
        mins == DFloor(DDivInt(DModInt(s, 3600), 60))
        secs == DFloor(DModInt(s, 60))
        ms   == DFloor(DMulInt(DFrac(s), 1000))
    IN  PadStart(IntToStr(hrs), 2) \o <<":">> \o PadStart(IntToStr(mins), 2) \o <<":">>
            \o PadStart(IntToStr(secs), 2) \o <<",">> \o PadStart(IntToStr(ms), 3)

\* the string the map callback returns for entry number index (1-based)
cueBlock(entries, index) ==
    IntToStr(index) \o <<"\n">>
        \o formatSRTTime(DFromInt(entries[index].start))
        \o <<" ", "-", "-", ">", " ">>
        \o formatSRTTime(endTime(entries, index)) \o <<"\n">>
        \o entries[index].text \o <<"\n">>

\* the cues of the map callback: entry, end time and returned block
srtCues(script) ==
    LET entries == srtEntries(script)
    IN  [index \in 1..Len(entries) |->
            [start |-> entries[index].start,
             end   |-> endTime(entries, index),
             text  |-> entries[index].text,
             block |-> cueBlock(entries, index)]]

\* the mapped array, before the join
cueBlocks(script) ==
    LET mapped == srtCues(script)
    IN  [index \in 1..Len(mapped) |-> mapped[index].block]

generateSRT(script) == Join(cueBlocks(script), <<"\n">>)

(***************************************************************************)
(* recalculateTimestamps                                                   *)
(***************************************************************************)
\* twice CHARS_PER_SECOND (4.5)
CHARS_PER_SECOND_X2 == 9

\* line.length / CHARS_PER_SECOND
spokenSeconds(line) == DDivInt(DFromInt(2 * Len(line)), CHARS_PER_SECOND_X2)

\* the lines that advance the clock
advancesClock(line) ==
    /\ ~timeRegexTest(line)
    /\ ~(Len(line) >= 1 /\ line[1] = "#")
    /\ Len(Trim(line)) > 0

RECURSIVE currentTimeAt(_, _)
\* currentTime when the map callback is entered for line number i
currentTimeAt(lines, i) ==
    IF i <= 1 THEN DZero
    ELSE IF advancesClock(lines[i - 1])
    THEN DAdd(currentTimeAt(lines, i - 1), spokenSeconds(lines[i - 1]))
    ELSE currentTimeAt(lines, i - 1)

newTimestamp(currentTime) ==
    <<"(">> \o PadStart(IntToStr(DFloor(DDivInt(currentTime, 60))), 2) \o <<":">>
        \o PadStart(IntToStr(DFloor(DModInt(currentTime, 60))), 2) \o <<")">>

\* processedLine with the line rebuilt from the marker on
processedLineFromMarker(lines, i) ==
    IF timeRegexTest(lines[i])
    THEN newTimestamp(currentTimeAt(lines, i))
            \o SubSeq(lines[i],
                      timeRegexIndex(lines[i]) + MatchLenAt(lines[i], timeRegexIndex(lines[i])),
                      Len(lines[i]))
    ELSE lines[i]

\* processedLine with a line that has no marker returned trimmed
processedLineTrimmed(lines, i) ==
    IF timeRegexTest(lines[i])
    THEN timeRegexReplace(lines[i], newTimestamp(currentTimeAt(lines, i)))
    ELSE Trim(lines[i])

\* the value the map callback returns for line number i
processedLine(lines, i) ==
    IF timeRegexTest(lines[i])
    THEN timeRegexReplace(lines[i], newTimestamp(currentTimeAt(lines, i)))
    ELSE lines[i]

\* recalculateTimestamps with the empty lines dropped from the result
recalculateTimestampsNonBlank(script) ==
    LET lines == Split(script)
        kept  == SelectSeq([i \in 1..Len(lines) |-> processedLine(lines, i)],
                           LAMBDA l : l # <<>>)
    IN  Join(kept, <<"\n">>)

recalculateTimestamps(script) ==
    LET lines == Split(script)
    IN  Join([i \in 1..Len(lines) |-> processedLine(lines, i)], <<"\n">>)

(***************************************************************************)
(* The engine as a state machine: a script is handed to one of the two     *)
(* functions, as saveEditing and handleBatchDownload do.                   *)
(***************************************************************************)
VARIABLES
    input,       \* the script as first handed over
    script,      \* the current script (content)
    prev,        \* the script before the last recalculation
    passes,      \* recalculations made
    exported,    \* generateSRT has run on the script
    srtContent,  \* its result
    cues,        \* the cues behind it: start, end, text and rendered block
    appState,          \* App: the AppState value
    analysisResult,    \* App: "null" or the result of the analysis
    isEditing,         \* OutputDisplay: edit mode
    editBuffer,        \* OutputDisplay: the text in the editor
    showDownloadModal, \* OutputDisplay: the download dialog is open
    downloadOptions,   \* OutputDisplay: the boxes ticked in the dialog
    timeLeft,          \* OutputDisplay: the countdown
    analyses,          \* analyzeTranscript calls not settled yet
    streams,           \* generateViralScriptStream calls not settled yet
    srtTimers,         \* setTimeout callbacks of handleBatchDownload not run yet,
                       \* each with the content of the render that set it
    cleared,           \* handleReset or handleNewScript ran and no generation
                       \* was started since
    op                 \* the handler or callback that ran last

engineVars == <<input, prev, passes, exported, srtContent, cues>>

uiVars == <<appState, analysisResult, isEditing, editBuffer, showDownloadModal,
            downloadOptions, timeLeft, analyses, streams, srtTimers, cleared, op>>

vars == <<input, script, prev, passes, exported, srtContent, cues,
          appState, analysisResult, isEditing, editBuffer, showDownloadModal,
          downloadOptions, timeLeft, analyses, streams, srtTimers, cleared, op>>

\* useState(60) and setTimeLeft(60)
COUNTDOWN_START == 60

MaxLines == 3

MaxRecalcLines == 4

MaxPasses == 2

LongLen == 26955

\* lines of the scripts handed to generateSRT
SRTLineSet ==
    { <<>>,
      <<"(", "0", "0", ":", "0", "5", ")", " ", "H", "i">>,
      <<"(", "0", "0", ":", "0", "2", ")">>,
      <<"0", "1", ":", "1", "0", " ", "*", "*", "[", "I", "n", "t", "r", "o", "]", "*", "*", " ", "H", "i", " ", "t", "h", "e", "r", "e">>,
      <<"H", "e", "l", "l", "o", " ", "w", "o", "r", "l", "d">>,
      <<"#", "#", " ", "S", "e", "c", "t", "i", "o", "n">>,
      <<"(", "6", "1", ":", "7", "5", ")", " ", "a", " ", "(", "0", "0", ":", "0", "1", ")">>,
      <<"(", "1", ":", "3", "0", ")", " ", "*", "*", "[", "C", "u", "t", "]", "*", "*", " ", "x">>,
      <<"T", "h", "e", " ", "q", "u", "i", "c", "k", " ", "b", "r", "o", "w", "n", " ", "f", "o", "x", " ", "j", "u", "m", "p", "s", " ", "o", "v", "e", "r", " ", "t", "h", "e", " ", "d", "o", "g">> }

\* lines of the scripts handed to recalculateTimestamps
RecalcLineSet ==
    { <<>>,
      <<"a", "b", "c">>,
      <<"a", "b", "c", "d", "e", "f", "g", "h", "i", "j", "k", "l">>,
      <<"#", "#", " ", "S", "e", "c", "t", "i", "o", "n">>,
      <<"(", "0", "0", ":", "0", "7", ")", " ", "H", "i">>,
      <<"x", "1", "2", ":", "3", "4", "5", " ", "y">> }

\* a content line of 45 characters: 10 seconds at 4.5 characters per second
Line45 == Rep("a", 45)

\* a content line long enough to take the clock near 100 minutes
LongLine == Rep("a", LongLen)

MarkerLine == <<"(", "0", "0", ":", "0", "0", ")", " ", "m">>

ExampleLineSet == { Line45, MarkerLine, <<"#", "#", " ", "S", "e", "c", "t", "i", "o", "n">>, <<" ", " ", " ">> }

SeqsUpTo(S, n) == UNION {[1..k -> S] : k \in 0..n}

Scripts(S, n) == {Join(ls, <<"\n">>) : ls \in SeqsUpTo(S, n)}

SRTScripts == Scripts(SRTLineSet, MaxLines)

\* scripts around one long line
LongScripts ==
    {Join(before \o <<LongLine>> \o after, <<"\n">>) :
        before \in {<<>>, <<Line45>>, <<MarkerLine>>, <<Line45, MarkerLine>>},
        after \in {<<>>, <<MarkerLine>>, <<MarkerLine, MarkerLine>>}}

RecalcScripts ==
    Scripts(RecalcLineSet, MaxRecalcLines)
        \cup Scripts(ExampleLineSet, 3)
        \cup LongScripts

InitWith(S) ==
    /\ input \in S
    /\ script = input
    /\ prev = input
    /\ passes = 0
    /\ exported = FALSE
    /\ srtContent = <<>>
    /\ cues = <<>>
    /\ appState = "COMPLETE"
    /\ analysisResult = "result"
    /\ isEditing = FALSE
    /\ editBuffer = input
    /\ showDownloadModal = FALSE
    /\ downloadOptions = [txt |-> TRUE, srt |-> TRUE]
    /\ timeLeft = COUNTDOWN_START
    /\ analyses = 0
    /\ streams = 0
    /\ srtTimers = {}
    /\ cleared = FALSE
    /\ op = "init"

\* handleBatchDownload with the srt option: generateSRT(content); the
\* result is the join of the blocks of the cues
GenerateSRT ==
    /\ ~exported
    /\ exported' = TRUE
    /\ cues' = srtCues(script)
    /\ srtContent' = Join([index \in 1..Len(cues') |-> cues'[index].block], <<"\n">>)
    /\ op' = "generateSRT"
    /\ UNCHANGED <<input, script, prev, passes>>
    /\ UNCHANGED <<appState, analysisResult, isEditing, editBuffer, showDownloadModal,
                   downloadOptions, timeLeft, analyses, streams, srtTimers, cleared>>

\* saveEditing: the script becomes recalculateTimestamps(editBuffer)
Recalculate ==
    /\ passes < MaxPasses
    /\ passes' = passes + 1
    /\ prev' = script
    /\ script' = recalculateTimestamps(script)
    /\ editBuffer' = script'
    /\ op' = "recalculateTimestamps"
    /\ UNCHANGED <<input, exported, srtContent, cues>>
    /\ UNCHANGED <<appState, analysisResult, isEditing, showDownloadModal,
                   downloadOptions, timeLeft, analyses, streams, srtTimers, cleared>>

InitSRT == InitWith(SRTScripts)

NextSRT == GenerateSRT

SpecSRT == InitSRT /\ [][NextSRT]_vars

InitRecalc == InitWith(RecalcScripts)

NextRecalc == Recalculate

SpecRecalc == InitRecalc /\ [][NextRecalc]_vars

\* the component as a whole: the script on screen is exported or edited
\* and saved, in any order
MaxEngineLines == 2

\* lines with stage directions, bold text, headings, marker-like
\* fragments of other widths and two markers
EngineLineSet ==
    { <<"(", "0", "0", ":", "0", "9", ")", " ", "[", "P", "a", "n", "]">>,
      <<"(", "0", "0", ":", "0", "0", ")", " ", "*", "[", "x", "]", "*", " ", "h", "i">>,
      <<"(", "0", "0", ":", "0", "0", ")", " ", "*", "*", "[", "I", "n", "t", "r", "o", "]", "*", "*", " ", "H", "i", " ", "t", "h", "e", "r", "e">>,
      <<"[", "Z", "o", "o", "m", "]", " ", "w", "i", "d", "e">>,
      <<"#", "#", " ", "S", "e", "c", "t", "i", "o", "n">>,
      <<"(", "1", ":", "3", "0", ")", " ", "x">>,
      <<"(", "1", "0", "0", ":", "3", "0", ")", " ", "y">>,
      <<"*", "*", "B", "o", "l", "d", "*", "*", " ", "t", "e", "x", "t">>,
      <<"(", "6", "1", ":", "7", "5", ")", " ", "a", " ", "(", "0", "0", ":", "0", "1", ")">>,
      <<"0", "0", ":", "0", "7", " ", "a", " ", "(", "0", "0", ":", "0", "9", ")", " ", "b">> }

\* the digits the minute and second fields of MarkerValueScripts are made of
FieldDigits == {"0", "5", "6", "9"}

\* one-line scripts "(ab:cd) v", the fields running over 00..99
MarkerValueScripts ==
    { <<"(", a, b, ":", c, d, ")", " ", "v">> : a \in FieldDigits, b \in FieldDigits,
                                               c \in FieldDigits, d \in FieldDigits }

EngineScripts == Scripts(EngineLineSet, MaxEngineLines) \cup MarkerValueScripts

InitEngine == InitWith(EngineScripts)

NextEngine == GenerateSRT \/ Recalculate

SpecEngine == InitEngine /\ [][NextEngine]_vars

(***************************************************************************)
(* App and OutputDisplay: the handlers, the callbacks of the two requests, *)
(* the timer of the download and the effects that follow every render.     *)
(* A step is one handler or callback with the render and the effects it    *)
(* causes.                                                                 *)
(***************************************************************************)
MaxAnalyses == 1

MaxStreams == 1

MaxTimers == 1

MaxContentLen == 12

\* the text of a stream chunk
ChunkSet == { <<"(", "0", "0", ":", "0", "9", ")", " ", "a">> }

\* what the user leaves in the editor
EditSet == { <<"b", "\n", "(", "0", "0", ":", "0", "3", ")", " ", "c">> }

\* the toolbar and the dialog are rendered in these states only
MainView == appState \in {"GENERATING", "COMPLETE"}

\* syncEffect without the test of isEditing
syncEffectAlways(content1, editing1, buffer1) ==
    IF content1 # script \/ editing1 # isEditing THEN content1 ELSE buffer1

\* useEffect(..., [content, isEditing]): editBuffer after the effect, given
\* the content and isEditing of the new render and the buffer the handler left
syncEffect(content1, editing1, buffer1) ==
    IF (content1 # script \/ editing1 # isEditing) /\ ~editing1
    THEN content1 ELSE buffer1

\* useEffect(..., [appState]): timeLeft after the effect
countdownEffect(state1) ==
    IF state1 # appState /\ state1 = "GENERATING" THEN COUNTDOWN_START ELSE timeLeft

handleAnalysis ==
    /\ analyses < MaxAnalyses
    /\ analyses' = analyses + 1
    /\ appState' = "ANALYZING"
    /\ timeLeft' = countdownEffect(appState')
    /\ op' = "handleAnalysis"
    /\ UNCHANGED <<script, analysisResult, isEditing, editBuffer, showDownloadModal,
                   downloadOptions, streams, srtTimers, cleared>>
    /\ UNCHANGED engineVars

\* analyzeTranscript resolved
analysisResolves ==
    /\ analyses > 0
    /\ analyses' = analyses - 1
    /\ analysisResult' = "result"
    /\ appState' = "ANALYSIS_COMPLETE"
    /\ timeLeft' = countdownEffect(appState')
    /\ op' = "analysisResolves"
    /\ UNCHANGED <<script, isEditing, editBuffer, showDownloadModal,
                   downloadOptions, streams, srtTimers, cleared>>
    /\ UNCHANGED engineVars

\* analyzeTranscript rejected
analysisRejects ==
    /\ analyses > 0
    /\ analyses' = analyses - 1
    /\ appState' = "ERROR"
    /\ timeLeft' = countdownEffect(appState')
    /\ op' = "analysisRejects"
    /\ UNCHANGED <<script, analysisResult, isEditing, editBuffer, showDownloadModal,
                   downloadOptions, streams, srtTimers, cleared>>
    /\ UNCHANGED engineVars

handleGeneration ==
    /\ analysisResult # "null"
    /\ streams < MaxStreams
    /\ streams' = streams + 1
    /\ appState' = "GENERATING"
    /\ script' = <<>>
    /\ editBuffer' = syncEffect(script', isEditing, editBuffer)
    /\ timeLeft' = countdownEffect(appState')
    /\ cleared' = FALSE
    /\ op' = "handleGeneration"
    /\ UNCHANGED <<analysisResult, isEditing, showDownloadModal, downloadOptions,
                   analyses, srtTimers>>
    /\ UNCHANGED engineVars

\* the onChunk callback of a stream: setGeneratedContent(prev => prev + chunk)
onChunk ==
    /\ streams > 0
    /\ \E chunk \in ChunkSet :
        /\ Len(script) + Len(chunk) <= MaxContentLen
        /\ script' = script \o chunk
    /\ editBuffer' = syncEffect(script', isEditing, editBuffer)
    /\ op' = "onChunk"
    /\ UNCHANGED <<appState, analysisResult, isEditing, showDownloadModal, downloadOptions,
                   timeLeft, analyses, streams, srtTimers, cleared>>
    /\ UNCHANGED engineVars

\* generateViralScriptStream resolved
generationResolves ==
    /\ streams > 0
    /\ streams' = streams - 1
    /\ appState' = "COMPLETE"
    /\ timeLeft' = countdownEffect(appState')
    /\ op' = "generationResolves"
    /\ UNCHANGED <<script, analysisResult, isEditing, editBuffer, showDownloadModal,
                   downloadOptions, analyses, srtTimers, cleared>>
    /\ UNCHANGED engineVars

\* generateViralScriptStream rejected
generationRejects ==
    /\ streams > 0
    /\ streams' = streams - 1
    /\ appState' = "ERROR"
    /\ timeLeft' = countdownEffect(appState')
    /\ op' = "generationRejects"
    /\ UNCHANGED <<script, analysisResult, isEditing, editBuffer, showDownloadModal,
                   downloadOptions, analyses, srtTimers, cleared>>
    /\ UNCHANGED engineVars

handleReset ==
    /\ appState' = "IDLE"
    /\ script' = <<>>
    /\ analysisResult' = "null"
    /\ editBuffer' = syncEffect(script', isEditing, editBuffer)
    /\ timeLeft' = countdownEffect(appState')
    /\ cleared' = TRUE
    /\ op' = "handleReset"
    /\ UNCHANGED <<isEditing, showDownloadModal, downloadOptions, analyses, streams, srtTimers>>
    /\ UNCHANGED engineVars

\* the button is rendered when not editing and disabled while generating
handleNewScript ==
    /\ MainView /\ ~isEditing /\ appState # "GENERATING"
    /\ script' = <<>>
    /\ appState' = IF analysisResult # "null" THEN "ANALYSIS_COMPLETE" ELSE "IDLE"
    /\ editBuffer' = syncEffect(script', isEditing, editBuffer)
    /\ timeLeft' = countdownEffect(appState')
    /\ cleared' = TRUE
    /\ op' = "handleNewScript"
    /\ UNCHANGED <<analysisResult, isEditing, showDownloadModal, downloadOptions,
                   analyses, streams, srtTimers>>
    /\ UNCHANGED engineVars

\* the edit button is rendered when not editing and disabled while generating
startEditing ==
    /\ MainView /\ ~isEditing /\ appState # "GENERATING"
    /\ isEditing' = TRUE
    /\ editBuffer' = syncEffect(script, isEditing', script)
    /\ op' = "startEditing"
    /\ UNCHANGED <<script, appState, analysisResult, showDownloadModal, downloadOptions,
                   timeLeft, analyses, streams, srtTimers, cleared>>
    /\ UNCHANGED engineVars

\* onChange of the textarea, rendered in edit mode
editBufferChange ==
    /\ MainView /\ isEditing
    /\ \E text \in EditSet :
        /\ text # editBuffer
        /\ editBuffer' = text
    /\ op' = "editBufferChange"
    /\ UNCHANGED <<script, appState, analysisResult, isEditing, showDownloadModal,
                   downloadOptions, timeLeft, analyses, streams, srtTimers, cleared>>
    /\ UNCHANGED engineVars

\* the cancel button is rendered in edit mode and never disabled
cancelEditing ==
    /\ MainView /\ isEditing
    /\ isEditing' = FALSE
    /\ editBuffer' = syncEffect(script, isEditing', script)
    /\ op' = "cancelEditing"
    /\ UNCHANGED <<script, appState, analysisResult, showDownloadModal, downloadOptions,
                   timeLeft, analyses, streams, srtTimers, cleared>>
    /\ UNCHANGED engineVars

\* saveEditing with the content in place of the editor's text
saveEditingOfContent ==
    /\ MainView /\ isEditing
    /\ prev' = script
    /\ script' = recalculateTimestamps(script)
    /\ isEditing' = FALSE
    /\ editBuffer' = syncEffect(script', isEditing', editBuffer)
    /\ op' = "saveEditing"
    /\ UNCHANGED <<appState, analysisResult, showDownloadModal, downloadOptions,
                   timeLeft, analyses, streams, srtTimers, cleared>>
    /\ UNCHANGED <<input, passes, exported, srtContent, cues>>

\* the save button is rendered in edit mode and never disabled; prev keeps
\* the text handed to recalculateTimestamps
saveEditing ==
    /\ MainView /\ isEditing
    /\ prev' = editBuffer
    /\ script' = recalculateTimestamps(editBuffer)
    /\ isEditing' = FALSE
    /\ editBuffer' = syncEffect(script', isEditing', editBuffer)
    /\ op' = "saveEditing"
    /\ UNCHANGED <<appState, analysisResult, showDownloadModal, downloadOptions,
                   timeLeft, analyses, streams, srtTimers, cleared>>
    /\ UNCHANGED <<input, passes, exported, srtContent, cues>>

\* the download button is rendered when not editing and disabled while generating
openDownloadModal ==
    /\ MainView /\ ~isEditing /\ appState # "GENERATING"
    /\ ~showDownloadModal
    /\ showDownloadModal' = TRUE
    /\ op' = "openDownloadModal"
    /\ UNCHANGED <<script, appState, analysisResult, isEditing, editBuffer, downloadOptions,
                   timeLeft, analyses, streams, srtTimers, cleared>>
    /\ UNCHANGED engineVars

\* the close and cancel buttons of the dialog
closeDownloadModal ==
    /\ MainView /\ showDownloadModal
    /\ showDownloadModal' = FALSE
    /\ op' = "closeDownloadModal"
    /\ UNCHANGED <<script, appState, analysisResult, isEditing, editBuffer, downloadOptions,
                   timeLeft, analyses, streams, srtTimers, cleared>>
    /\ UNCHANGED engineVars

\* the two check boxes of the dialog
toggleOption ==
    /\ MainView /\ showDownloadModal
    /\ \/ downloadOptions' = [downloadOptions EXCEPT !.txt = ~downloadOptions.txt]
       \/ downloadOptions' = [downloadOptions EXCEPT !.srt = ~downloadOptions.srt]
    /\ op' = "toggleOption"
    /\ UNCHANGED <<script, appState, analysisResult, isEditing, editBuffer, showDownloadModal,
                   timeLeft, analyses, streams, srtTimers, cleared>>
    /\ UNCHANGED engineVars

\* the confirm button of the dialog, disabled when no box is ticked; with
\* the srt box ticked it sets the timer that will call generateSRT(content)
handleBatchDownload ==
    /\ MainView /\ showDownloadModal
    /\ downloadOptions.txt \/ downloadOptions.srt
    /\ IF downloadOptions.srt
       THEN /\ Cardinality(srtTimers \cup {script}) <= MaxTimers
            /\ srtTimers' = srtTimers \cup {script}
       ELSE srtTimers' = srtTimers
    /\ showDownloadModal' = FALSE
    /\ op' = "handleBatchDownload"
    /\ UNCHANGED <<script, appState, analysisResult, isEditing, editBuffer, downloadOptions,
                   timeLeft, analyses, streams, cleared>>
    /\ UNCHANGED engineVars

\* the setTimeout callback of handleBatchDownload
srtTimerFires ==
    /\ \E content \in srtTimers :
        /\ srtTimers' = srtTimers \ {content}
        /\ cues' = srtCues(content)
    /\ srtContent' = Join([index \in 1..Len(cues') |-> cues'[index].block], <<"\n">>)
    /\ exported' = TRUE
    /\ op' = "srtTimerFires"
    /\ UNCHANGED <<script, appState, analysisResult, isEditing, editBuffer, showDownloadModal,
                   downloadOptions, timeLeft, analyses, streams, cleared>>
    /\ UNCHANGED <<input, prev, passes>>

\* tick with the countdown going below 0
tickBelowZero ==
    /\ appState = "GENERATING"
    /\ timeLeft' = timeLeft - 1
    /\ op' = "tick"
    /\ UNCHANGED <<script, appState, analysisResult, isEditing, editBuffer, showDownloadModal,
                   downloadOptions, analyses, streams, srtTimers, cleared>>
    /\ UNCHANGED engineVars

\* the setInterval callback, alive from the effect that follows a change of
\* appState to GENERATING until the cleanup at the next change of appState
tick ==
    /\ appState = "GENERATING"
    /\ timeLeft' = IF timeLeft > 0 THEN timeLeft - 1 ELSE 0
    /\ op' = "tick"
    /\ UNCHANGED <<script, appState, analysisResult, isEditing, editBuffer, showDownloadModal,
                   downloadOptions, analyses, streams, srtTimers, cleared>>
    /\ UNCHANGED engineVars

InitApp ==
    /\ input = <<>>
    /\ script = <<>>
    /\ prev = <<>>
    /\ passes = 0
    /\ exported = FALSE
    /\ srtContent = <<>>
    /\ cues = <<>>
    /\ appState = "IDLE"
    /\ analysisResult = "null"
    /\ isEditing = FALSE
    /\ editBuffer = <<>>
    /\ showDownloadModal = FALSE
    /\ downloadOptions = [txt |-> TRUE, srt |-> FALSE]
    /\ timeLeft = COUNTDOWN_START
    /\ analyses = 0
    /\ streams = 0
    /\ srtTimers = {}
    /\ cleared = FALSE
    /\ op = "init"

\* App with the editor of OutputDisplay
NextApp ==
    \/ handleAnalysis
    \/ analysisResolves
    \/ analysisRejects
    \/ handleGeneration
    \/ onChunk
    \/ generationResolves
    \/ generationRejects
    \/ handleReset
    \/ handleNewScript
    \/ startEditing
    \/ editBufferChange
    \/ cancelEditing
    \/ saveEditing

SpecApp == InitApp /\ [][NextApp]_vars

\* the steps that run the timing engine, with those that start and feed a
\* generation
NextTiming ==
    \/ handleAnalysis
    \/ analysisResolves
    \/ handleGeneration
    \/ onChunk
    \/ generationResolves
    \/ startEditing
    \/ saveEditing
    \/ openDownloadModal
    \/ closeDownloadModal
    \/ toggleOption
    \/ handleBatchDownload
    \/ srtTimerFires

SpecTiming == InitApp /\ [][NextTiming]_vars

\* the countdown: the changes of appState and the ticks
NextCountdown ==
    \/ handleAnalysis
    \/ analysisResolves
    \/ analysisRejects
    \/ handleGeneration
    \/ generationResolves
    \/ generationRejects
    \/ handleReset
    \/ handleNewScript
    \/ tick

SpecCountdown == InitApp /\ [][NextCountdown]_vars

(***************************************************************************)
(* What the claims speak of, stated on the text itself                     *)
(***************************************************************************)
\* a two-digit minute, a colon and a two-digit second start at position c
CoreStartsAt(line, c) ==
    /\ c >= 1
    /\ c + 4 <= Len(line)
    /\ \A k \in {c, c + 1, c + 3, c + 4} : IsDigit(line[k])
    /\ line[c + 2] = ":"

HasMarker(line) == \E c \in 1..Len(line) : CoreStartsAt(line, c)

\* the leftmost marker of a marker line: its digits, its first character
\* and the position after its last one (parentheses included when present)
MarkerCore(line) == MinOf({c \in 1..Len(line) : CoreStartsAt(line, c)})

MarkerFirst(line) ==
    IF MarkerCore(line) > 1 /\ line[MarkerCore(line) - 1] = "("
    THEN MarkerCore(line) - 1 ELSE MarkerCore(line)

MarkerAfter(line) ==
    IF MarkerCore(line) + 5 <= Len(line) /\ line[MarkerCore(line) + 5] = ")"
    THEN MarkerCore(line) + 6 ELSE MarkerCore(line) + 5

\* minutes * 60 + seconds of the leftmost marker
MarkerValue(line) ==
    LET c == MarkerCore(line)
    IN  (DigitVal(line[c]) * 10 + DigitVal(line[c + 1])) * 60
            + DigitVal(line[c + 3]) * 10 + DigitVal(line[c + 4])

MarkerLines(lines) == {i \in 1..Len(lines) : HasMarker(lines[i])}

\* the n-th smallest element of a set of numbers
NthOf(S, n) == CHOOSE x \in S : Cardinality({y \in S : y <= x}) = n

\* the two bounds rendered on the time-range line of a cue block
TimeRangeLine(block) == Split(block)[2]

ArrowAt(tl) ==
    MinOf({k \in 1..(Len(tl) - 4) : SubSeq(tl, k, k + 4) = <<" ", "-", "-", ">", " ">>})

StartField(block) == SubSeq(TimeRangeLine(block), 1, ArrowAt(TimeRangeLine(block)) - 1)

EndField(block) ==
    SubSeq(TimeRangeLine(block), ArrowAt(TimeRangeLine(block)) + 5, Len(TimeRangeLine(block)))

\* what a recalculation wrote in place of the marker of line inl, given
\* the line outl it returned
Written(inl, outl) ==
    SubSeq(outl, MarkerFirst(inl), Len(outl) - (Len(inl) - MarkerAfter(inl) + 1))

RECURSIVE StrToInt(_)
StrToInt(d) ==
    IF Len(d) = 0 THEN 0
    ELSE 10 * StrToInt(SubSeq(d, 1, Len(d) - 1)) + DigitVal(d[Len(d)])

IsMMSS(w) ==
    /\ Len(w) = 7
    /\ w[1] = "("
    /\ IsDigit(w[2]) /\ IsDigit(w[3])
    /\ w[4] = ":"
    /\ IsDigit(w[5]) /\ IsDigit(w[6])
    /\ w[7] = ")"
    /\ DigitVal(w[5]) <= 5

\* the seconds a written "(M..M:SS)" stands for
WrittenSeconds(w) ==
    LET colon == MinOf({k \in 1..Len(w) : w[k] = ":"})
    IN  StrToInt(SubSeq(w, 2, colon - 1)) * 60 + StrToInt(SubSeq(w, colon + 1, Len(w) - 1))

\* a line whose length counts as spoken time
IsSpoken(line) ==
    /\ ~HasMarker(line)
    /\ \E k \in 1..Len(line) : ~IsSpace(line[k])
    /\ line[1] # "#"

RECURSIVE SpokenBefore(_, _)
\* the characters of the spoken lines ahead of line i
SpokenBefore(lines, i) ==
    IF i <= 1 THEN 0
    ELSE SpokenBefore(lines, i - 1) + (IF IsSpoken(lines[i - 1]) THEN Len(lines[i - 1]) ELSE 0)

(***************************************************************************)
(* C1: a script with k marker lines yields exactly k cue blocks, numbered  *)
(* 1..k, cue n being the one of the n-th marker line in textual order,     *)
(* also when a marker line has no caption text.                            *)
(***************************************************************************)
C1_OneCuePerMarker ==
    exported =>
        LET lines == Split(script)
            M     == MarkerLines(lines)
        IN  /\ Len(cues) = Cardinality(M)
            /\ \A n \in 1..Len(cues) :
                /\ Split(cues[n].block)[1] = IntToStr(n)
                /\ n <= Cardinality(M) => cues[n].start = MarkerValue(lines[NthOf(M, n)])

C1_Witness ==
    /\ exported
    /\ Len(cues) >= 2
    /\ ~HasMarker(Split(script)[1])
    /\ \E n \in 1..Len(cues) : cues[n].text = <<>>

(***************************************************************************)
(* C2: every cue has endSeconds >= startSeconds, whatever the order of     *)
(* the marker values in the script.                                        *)
(***************************************************************************)
C2_EndNotBeforeStart ==
    exported => \A n \in 1..Len(cues) : ~DLess(cues[n].end, DFromInt(cues[n].start))

(***************************************************************************)
(* C3: the end of every non-final cue is the start of the next cue, the    *)
(* decoded value of the next marker line, in value and as rendered.        *)
(***************************************************************************)
C3_EndIsNextStart ==
    exported =>
        LET lines == Split(script)
            M     == MarkerLines(lines)
        IN  \A n \in 1..(Len(cues) - 1) :
                /\ n + 1 <= Cardinality(M)
                /\ cues[n].end = DFromInt(MarkerValue(lines[NthOf(M, n + 1)]))
                /\ EndField(cues[n].block) = StartField(cues[n + 1].block)

C3_Witness ==
    /\ exported
    /\ Len(cues) >= 3
    /\ cues[1].end # cues[2].end
    /\ EndField(cues[1].block) # StartField(cues[1].block)

(***************************************************************************)
(* C4: recalculating the result of a recalculation changes nothing, also   *)
(* when the running clock reaches 100 minutes.                             *)
(***************************************************************************)
C4_SecondPassIdentical == passes = 2 => script = prev

(***************************************************************************)
(* C5: a recalculation keeps the number of lines and their order: line i   *)
(* of the result is line i of the script, a marker line staying a marker   *)
(* line and any other line staying as it is.                               *)
(***************************************************************************)
C5_LineCountPreserved ==
    passes >= 1 =>
        LET inl  == Split(prev)
            outl == Split(script)
        IN  /\ Len(outl) = Len(inl)
            /\ \A i \in 1..Len(inl) :
                i <= Len(outl) =>
                    IF HasMarker(inl[i]) THEN HasMarker(outl[i]) ELSE outl[i] = inl[i]

C5_Witness ==
    /\ passes = 1
    /\ script # prev
    /\ Len(Split(prev)) >= 4
    /\ \E i \in 1..Len(Split(prev)) : Split(prev)[i] = <<>>
    /\ \E i \in 1..Len(Split(prev)) : HasMarker(Split(prev)[i])

(***************************************************************************)
(* C6: a recalculation changes marker substrings only: a line without a    *)
(* marker is returned as it is, and in a marker line the characters before *)
(* and after the leftmost marker are returned as they are.                 *)
(***************************************************************************)
C6_OnlyMarkerRewritten ==
    passes >= 1 =>
        LET inl  == Split(prev)
            outl == Split(script)
        IN  \A i \in 1..Len(inl) :
                /\ i <= Len(outl)
                /\ IF ~HasMarker(inl[i]) THEN outl[i] = inl[i]
                   ELSE LET before == MarkerFirst(inl[i]) - 1
                            after  == Len(inl[i]) - MarkerAfter(inl[i]) + 1
                        IN  /\ Len(outl[i]) >= before + after
                            /\ SubSeq(outl[i], 1, before) = SubSeq(inl[i], 1, before)
                            /\ SubSeq(outl[i], Len(outl[i]) - after + 1, Len(outl[i]))
                                   = SubSeq(inl[i], MarkerAfter(inl[i]), Len(inl[i]))

C6_Witness ==
    /\ passes = 1
    /\ \E i \in 1..Len(Split(prev)) :
        /\ HasMarker(Split(prev)[i])
        /\ MarkerFirst(Split(prev)[i]) > 1
        /\ MarkerAfter(Split(prev)[i]) <= Len(Split(prev)[i])
        /\ Split(script)[i] # Split(prev)[i]

(***************************************************************************)
(* C7: every marker a recalculation writes is "(" two digits ":" two       *)
(* digits ")" with seconds in 00..59, standing for the floor of the        *)
(* running clock at its line, for every value the clock can reach.         *)
(***************************************************************************)
C7_MarkerShape ==
    passes = 1 =>
        LET inl  == Split(prev)
            outl == Split(script)
        IN  \A i \in 1..Len(inl) :
                HasMarker(inl[i]) =>
                    /\ IsMMSS(Written(inl[i], outl[i]))
                    /\ WrittenSeconds(Written(inl[i], outl[i])) = DFloor(currentTimeAt(inl, i))

(***************************************************************************)
(* C8: the value written into a marker is floor(n / 4.5), n the number of  *)
(* characters of the lines ahead of it that have no marker, are not blank  *)
(* after trimming and do not start with '#'.                               *)
(***************************************************************************)
C8_ExactClock ==
    passes = 1 =>
        LET inl  == Split(prev)
            outl == Split(script)
        IN  \A i \in 1..Len(inl) :
                HasMarker(inl[i]) =>
                    WrittenSeconds(Written(inl[i], outl[i]))
                        = (2 * SpokenBefore(inl, i)) \div CHARS_PER_SECOND_X2

(***************************************************************************)
(* C9: in the result of a recalculation the marker values, as the scanner  *)
(* decodes them, never decrease from one marker line to a later one.       *)
(***************************************************************************)
C9_MarkersMonotone ==
    passes = 1 =>
        LET outl == Split(script)
        IN  \A i, j \in MarkerLines(outl) :
                i < j => MarkerValue(outl[i]) <= MarkerValue(outl[j])

(***************************************************************************)
(* C10: a script with no marker on any line yields the empty string.       *)
(***************************************************************************)
C10_NoMarkerEmptyTrack ==
    (exported /\ MarkerLines(Split(script)) = {}) => (srtContent = <<>> /\ cues = <<>>)

C10_Witness ==
    /\ exported
    /\ MarkerLines(Split(script)) = {}
    /\ Len(Split(script)) >= 2
    /\ \E i \in 1..Len(Split(script)) : cleanLine(Split(script)[i]) # <<>>
    /\ srtContent = <<>>

(***************************************************************************)
(* C11: when no line of the script has a marker, a recalculation returns   *)
(* the script character for character.                                     *)
(***************************************************************************)
C11_NoMarkerUnchanged ==
    (passes >= 1 /\ MarkerLines(Split(prev)) = {}) => script = prev

C11_Witness ==
    /\ passes = 1
    /\ MarkerLines(Split(prev)) = {}
    /\ Len(Split(prev)) >= 3
    /\ \E i \in 1..Len(Split(prev)) : IsSpoken(Split(prev)[i])
    /\ \E i \in 1..Len(Split(prev)) :
        Split(prev)[i] # <<>> /\ \A k \in 1..Len(Split(prev)[i]) : IsSpace(Split(prev)[i][k])
    /\ script = prev

(***************************************************************************)
(* C12: the last cue ends at start + max(3, floor(length / 10)) seconds,   *)
(* length the number of characters of its caption text: a whole number of  *)
(* seconds for every length, also above 30 and not a multiple of 10.       *)
(***************************************************************************)
C12_LastEndWholeSeconds ==
    (exported /\ Len(cues) >= 1) =>
        LET last == cues[Len(cues)]
            secs == IF Len(last.text) \div 10 > 3 THEN Len(last.text) \div 10 ELSE 3
        IN  /\ last.end = DFromInt(last.start + secs)
            /\ EndField(last.block) = formatSRTTime(DFromInt(last.start + secs))

(***************************************************************************)
(* C13: in every exported track the milliseconds field of the start and    *)
(* of the end of every cue is "000".                                       *)
(***************************************************************************)
C13_MillisecondsZero ==
    exported =>
        \A n \in 1..Len(cues) :
            LET sf == StartField(cues[n].block)
                ef == EndField(cues[n].block)
            IN  /\ Len(sf) >= 4 /\ SubSeq(sf, Len(sf) - 3, Len(sf)) = <<",", "0", "0", "0">>
                /\ Len(ef) >= 4 /\ SubSeq(ef, Len(ef) - 3, Len(ef)) = <<",", "0", "0", "0">>

(***************************************************************************)
(* C14: the exported track is the concatenation, cue after cue, of         *)
(* "<n>\n<start> --> <end>\n<caption lines>\n\n": every block, the last    *)
(* one too, ends with a blank separator line.                              *)
(***************************************************************************)
C14_BlocksBlankTerminated ==
    exported =>
        srtContent =
            Join([n \in 1..Len(cues) |->
                    IntToStr(n) \o <<"\n">>
                        \o StartField(cues[n].block) \o <<" ", "-", "-", ">", " ">>
                        \o EndField(cues[n].block) \o <<"\n">>
                        \o cues[n].text \o <<"\n", "\n">>],
                 <<>>)

(***************************************************************************)
(* C15: every cue block has at least one non-empty caption line between    *)
(* its time-range line and its separator, also for a marker line that      *)
(* carries a marker and a bracketed cue only and is followed at once by    *)
(* another marker line.                                                    *)
(***************************************************************************)
C15_CaptionNotEmpty ==
    exported =>
        \A n \in 1..Len(cues) :
            /\ cues[n].text # <<>>
            /\ Len(Split(cues[n].block)) >= 3
            /\ Split(cues[n].block)[3] # <<>>

(***************************************************************************)
(* C16: the start of a cue renders minutes * 60 + seconds of its marker,   *)
(* for every two-digit minute and second (seconds 60..99 too), as          *)
(* HH:MM:SS,000 with HH = v div 3600, MM = (v mod 3600) div 60 and         *)
(* SS = v mod 60, two digits each.                                         *)
(***************************************************************************)
DigitChar(d) == DigitChars[d + 1]

TwoDigits(k) == <<DigitChar(k \div 10), DigitChar(k % 10)>>

RenderedSeconds(v) ==
    TwoDigits(v \div 3600) \o <<":">> \o TwoDigits((v % 3600) \div 60) \o <<":">>
        \o TwoDigits(v % 60) \o <<",", "0", "0", "0">>

C16_StartRendersMarker ==
    (exported /\ passes = 0) =>
        LET lines == Split(script)
            M     == MarkerLines(lines)
        IN  \A n \in 1..Len(cues) :
                /\ n <= Cardinality(M)
                /\ StartField(cues[n].block) = RenderedSeconds(MarkerValue(lines[NthOf(M, n)]))

C16_Witness ==
    /\ exported
    /\ passes = 0
    /\ Len(cues) = 1
    /\ HasMarker(script)
    /\ DigitVal(script[MarkerCore(script) + 3]) >= 6
    /\ MarkerValue(script) >= 3600
    /\ StartField(cues[1].block) = RenderedSeconds(MarkerValue(script))

(***************************************************************************)
(* C17: no caption text contains a "[...]" span, whether the span stood on *)
(* the marker line or on a later line of the caption block.                *)
(***************************************************************************)
HasBracketSpan(t) ==
    \E i \in 1..Len(t) : \E j \in (i + 1)..Len(t) :
        /\ t[i] = "["
        /\ t[j] = "]"
        /\ \A k \in i..j : t[k] # "\n"

C17_NoBracketSpan ==
    exported => \A n \in 1..Len(cues) : ~HasBracketSpan(cues[n].text)

(***************************************************************************)
(* C18: a heading line (1 to 6 leading '#' and a white space) inside a     *)
(* caption block adds nothing to the caption text: the captions are those  *)
(* of the script with its heading lines taken out.                         *)
(***************************************************************************)
IsHeading(line) ==
    \E h \in 1..6 :
        /\ Len(line) > h
        /\ \A k \in 1..h : line[k] = "#"
        /\ IsSpace(line[h + 1])

WithoutHeadings(lines) == SelectSeq(lines, LAMBDA l : ~(IsHeading(l) /\ ~HasMarker(l)))

C18_HeadingAddsNothing ==
    (exported /\ passes = 0) =>
        LET plain == srtCues(Join(WithoutHeadings(Split(script)), <<"\n">>))
        IN  /\ Len(plain) = Len(cues)
            /\ \A n \in 1..Len(cues) : n <= Len(plain) => cues[n].text = plain[n].text

(***************************************************************************)
(* C19: no caption text contains "**", whatever the line, marker lines     *)
(* with asterisks around a bracketed span included.                        *)
(***************************************************************************)
C19_NoBoldDelimiter ==
    exported =>
        \A n \in 1..Len(cues) :
            \A k \in 1..(Len(cues[n].text) - 1) :
                ~(cues[n].text[k] = "*" /\ cues[n].text[k + 1] = "*")

(***************************************************************************)
(* C20: a line whose marker-like fragments (digits, a colon, digits) none  *)
(* have exactly two minute digits and two second digits, such as "(1:30)"  *)
(* or "(100:30)", is ordinary content: it opens no cue in an export and a  *)
(* recalculation returns it as it is.                                      *)
(***************************************************************************)
\* the digits that end just before position c, and those that start after it
DigitsBefore(line, c) ==
    Cardinality({k \in 1..(c - 1) : \A j \in k..(c - 1) : IsDigit(line[j])})

DigitsAfter(line, c) ==
    Cardinality({k \in (c + 1)..Len(line) : \A j \in (c + 1)..k : IsDigit(line[j])})

Fragments(line) ==
    {c \in 1..Len(line) :
        line[c] = ":" /\ DigitsBefore(line, c) >= 1 /\ DigitsAfter(line, c) >= 1}

OnlyPartialMarkers(line) ==
    /\ Fragments(line) # {}
    /\ \A c \in Fragments(line) :
        ~(DigitsBefore(line, c) = 2 /\ DigitsAfter(line, c) = 2)

C20_NoPartialMarker ==
    /\ (exported /\ passes = 0) =>
            Len(cues) = Cardinality({i \in MarkerLines(Split(script)) :
                                        ~OnlyPartialMarkers(Split(script)[i])})
    /\ passes >= 1 =>
            \A i \in 1..Len(Split(prev)) :
                OnlyPartialMarkers(Split(prev)[i]) =>
                    (i <= Len(Split(script)) /\ Split(script)[i] = Split(prev)[i])

(***************************************************************************)
(* C22: only the leftmost marker of a line counts. In an export a line     *)
(* with two or more markers opens one cue, at the value of its leftmost    *)
(* marker, and only that marker is taken out of the caption; a             *)
(* recalculation rewrites the leftmost marker and returns the text before  *)
(* and after it, later markers included, as it is.                         *)
(***************************************************************************)
MarkerCount(line) == Cardinality({c \in 1..Len(line) : CoreStartsAt(line, c)})

\* the line without its leftmost marker
WithoutLeftmost(line) ==
    SubSeq(line, 1, MarkerFirst(line) - 1) \o SubSeq(line, MarkerAfter(line), Len(line))

Undecorated(t) == \A k \in 1..Len(t) : t[k] \notin {"*", "[", "]", "#"}

C22_LeftmostMarkerOnly ==
    /\ (exported /\ passes = 0) =>
            LET lines == Split(script)
                M     == MarkerLines(lines)
            IN  /\ Len(cues) = Cardinality(M)
                /\ \A n \in 1..Len(cues) :
                    n <= Cardinality(M) =>
                        LET l    == lines[NthOf(M, n)]
                            rest == WithoutLeftmost(l)
                        IN  /\ cues[n].start = MarkerValue(l)
                            /\ (Undecorated(rest) /\ Trim(rest) # <<>>) =>
                                    Split(cues[n].text)[1] = Trim(rest)
    /\ passes >= 1 =>
            LET inl  == Split(prev)
                outl == Split(script)
            IN  \A i \in 1..Len(inl) :
                    HasMarker(inl[i]) =>
                        /\ i <= Len(outl)
                        /\ LET before == MarkerFirst(inl[i]) - 1
                               after  == Len(inl[i]) - MarkerAfter(inl[i]) + 1
                               w      == Written(inl[i], outl[i])
                           IN  /\ Len(outl[i]) >= before + after + 7
                               /\ SubSeq(outl[i], 1, before) = SubSeq(inl[i], 1, before)
                               /\ SubSeq(outl[i], Len(outl[i]) - after + 1, Len(outl[i]))
                                      = SubSeq(inl[i], MarkerAfter(inl[i]), Len(inl[i]))
                               /\ w[1] = "(" /\ w[Len(w)] = ")"
                               /\ \A k \in 2..(Len(w) - 1) : IsDigit(w[k]) \/ w[k] = ":"

C22_Witness ==
    /\ exported
    /\ passes = 1
    /\ prev = input
    /\ Len(Split(prev)) = 1
    /\ MarkerCount(prev) >= 2
    /\ MarkerFirst(prev) = 1
    /\ Len(cues) = 1
    /\ HasMarker(cues[1].text)
    /\ script # prev
    /\ MarkerCount(script) >= 2

(***************************************************************************)
(* C23: a line without a marker whose sanitized text is not empty is in    *)
(* the caption of one cue only, the cue of the nearest marker line above   *)
(* it, the lines of a cue standing in the order of the script; the lines   *)
(* above the first marker line are in no cue.                              *)
(***************************************************************************)
\* the line after the block of the n-th marker line
BlockEnd(lines, n) ==
    IF n < Cardinality(MarkerLines(lines))
    THEN NthOf(MarkerLines(lines), n + 1) ELSE Len(lines) + 1

\* the sanitized lines of the block of the n-th marker line, in order
BlockCaption(lines, n) ==
    LET first == NthOf(MarkerLines(lines), n)
        all   == [k \in 1..(BlockEnd(lines, n) - first) |->
                     IF k = 1 THEN cleanText(lines[first])
                     ELSE cleanLine(lines[first + k - 1])]
    IN  Join(SelectSeq(all, LAMBDA t : t # <<>>), <<"\n">>)

C23_LinesInNearestCue ==
    exported =>
        LET lines == Split(script)
        IN  /\ Len(cues) = Cardinality(MarkerLines(lines))
            /\ \A n \in 1..Len(cues) :
                n <= Cardinality(MarkerLines(lines)) =>
                    cues[n].text = BlockCaption(lines, n)

C23_Witness ==
    /\ exported
    /\ Len(Split(script)) = 3
    /\ ~HasMarker(Split(script)[1])
    /\ cleanLine(Split(script)[1]) # <<>>
    /\ HasMarker(Split(script)[2])
    /\ ~HasMarker(Split(script)[3])
    /\ Len(cues) = 1
    /\ Len(Split(cues[1].text)) = 2
    /\ Split(cues[1].text)[2] = cleanLine(Split(script)[3])

(***************************************************************************)
(* C24: a line that is empty once sanitized is dropped: no caption text    *)
(* has an empty line (two line breaks in a row), and none starts or ends   *)
(* with white space.                                                       *)
(***************************************************************************)
C24_NoBlankFragment ==
    exported =>
        \A n \in 1..Len(cues) :
            LET t == cues[n].text
            IN  /\ \A k \in 1..(Len(t) - 1) : ~(t[k] = "\n" /\ t[k + 1] = "\n")
                /\ t # <<>> => (~IsSpace(t[1]) /\ ~IsSpace(t[Len(t)]))

C24_Witness ==
    /\ exported
    /\ Len(Split(script)) = 3
    /\ HasMarker(Split(script)[1])
    /\ Split(script)[2] = <<>>
    /\ ~HasMarker(Split(script)[3])
    /\ Len(cues) = 1
    /\ Len(Split(cues[1].text)) = 2

(***************************************************************************)
(* C25: the last cue lasts 3 seconds or more (end - start >= 3) for every  *)
(* script with a marker.                                                   *)
(***************************************************************************)
C25_LastCueAtLeastThree ==
    (exported /\ Len(cues) >= 1) =>
        ~DLess(cues[Len(cues)].end, DFromInt(cues[Len(cues)].start + 3))

C25_Witness ==
    /\ exported
    /\ Len(cues) >= 2
    /\ cues[Len(cues)].text = <<>>
    /\ cues[Len(cues)].end = DFromInt(cues[Len(cues)].start + 3)

(***************************************************************************)
(* C21: the timing engine runs on the assembled script only: in every      *)
(* interleaving of the user's actions and of the arriving chunks, neither  *)
(* recalculateTimestamps (saveEditing) nor generateSRT (the timer of       *)
(* handleBatchDownload) runs while appState is GENERATING.                 *)
(***************************************************************************)
C21_EngineNotWhileGenerating ==
    ~(op \in {"saveEditing", "srtTimerFires"} /\ appState = "GENERATING")

(***************************************************************************)
(* C26: saveEditing replaces the script by recalculateTimestamps of the    *)
(* editor's text and leaves edit mode; cancelEditing leaves the script as  *)
(* it is, sets the editor's text back to it and leaves edit mode; neither  *)
(* changes appState.                                                       *)
(***************************************************************************)
C26_SaveAndCancel ==
    [][/\ op' = "saveEditing" =>
            /\ script' = recalculateTimestamps(editBuffer)
            /\ ~isEditing'
            /\ appState' = appState
       /\ op' = "cancelEditing" =>
            /\ script' = script
            /\ editBuffer' = script
            /\ ~isEditing'
            /\ appState' = appState]_vars

C26_Witness ==
    /\ op = "saveEditing"
    /\ ~isEditing
    /\ prev \in EditSet
    /\ script # prev
    /\ HasMarker(Split(script)[2])
    /\ editBuffer = script

(***************************************************************************)
(* C27: the editor's text is kept apart from the stream: while isEditing   *)
(* is true no change of the content (a chunk, a reset, a new script)       *)
(* changes editBuffer, and whenever isEditing is false, the effect having  *)
(* run, editBuffer is the content.                                         *)
(***************************************************************************)
C27_BufferIsolated ==
    /\ [](~isEditing => editBuffer = script)
    /\ [][(isEditing /\ isEditing' /\ script' # script) => editBuffer' = editBuffer]_vars

C27_Witness ==
    /\ isEditing
    /\ op \in {"onChunk", "handleReset", "handleGeneration"}
    /\ editBuffer # script
    /\ editBuffer # <<>>

(***************************************************************************)
(* C28: in every interleaving of handleAnalysis, handleGeneration,         *)
(* handleReset and handleNewScript with the completions of the two         *)
(* requests, analysisResult is not null whenever appState is GENERATING or *)
(* COMPLETE.                                                               *)
(***************************************************************************)
C28_ResultWhileGenerated ==
    appState \in {"GENERATING", "COMPLETE"} => analysisResult # "null"

(***************************************************************************)
(* C29: once handleReset or handleNewScript has cleared the content, and   *)
(* until handleGeneration is called again, no chunk and no completion of a *)
(* stream started earlier appends to the content or changes appState.      *)
(***************************************************************************)
C29_ClearedStaysCleared ==
    [][(cleared /\ op' \in {"onChunk", "generationResolves", "generationRejects"}) =>
            (script' = script /\ appState' = appState)]_vars

(***************************************************************************)
(* C30: 0 <= timeLeft <= 60 always; timeLeft is set to 60 when appState    *)
(* becomes GENERATING, a tick takes 1 off it while GENERATING and leaves   *)
(* it at 0 once there, and nothing changes it while appState is not        *)
(* GENERATING.                                                             *)
(***************************************************************************)
C30_CountdownRange ==
    /\ [](timeLeft \in 0..COUNTDOWN_START)
    /\ [][/\ (appState # "GENERATING" /\ appState' = "GENERATING") =>
                timeLeft' = COUNTDOWN_START
          /\ (op' = "tick" /\ appState = "GENERATING") =>
                timeLeft' = (IF timeLeft > 0 THEN timeLeft - 1 ELSE 0)
          /\ (appState # "GENERATING" /\ appState' # "GENERATING") =>
                timeLeft' = timeLeft]_vars

C30_Witness ==
    /\ appState = "GENERATING"
    /\ op = "tick"
    /\ timeLeft = 0

====
